---- MODULE Spec2Model ----
(***************************************************************************)
(* Model of the `abort_if` attribute macro (src/src/lib.rs).               *)
(*                                                                         *)
(* The macro is one pure rewrite: it takes the attribute's argument tokens *)
(* and the annotated item, and returns the token stream that replaces the  *)
(* item.  The state is the macro's two inputs, the two cargo features it   *)
(* reads with cfg!, and the token stream it returns.                       *)
(***************************************************************************)
EXTENDS Integers, Sequences, FiniteSets, TLC

VARIABLES raw_args, input, custom_abort, keep_going, output, pc

vars == <<raw_args, input, custom_abort, keep_going, output, pc>>

\* Bounds of the model.
MaxArgs == 2      \* top-level terms in the attribute's argument list
MaxStmts == 2     \* statements in the annotated function's body
MaxAttrs == 1     \* other attributes the annotated function carries

SeqsUpTo(S, n) == UNION {[1..k -> S] : k \in 0..n}

----------------------------------------------------------------------------
\* syn data: Meta (Path | NameValue | List), Attribute, Stmt, Signature, ItemFn.

MetaPath(p) == [kind |-> "Path", path |-> p, lit |-> "", nested |-> <<>>]
MetaNameValue(p, l) == [kind |-> "NameValue", path |-> p, lit |-> l, nested |-> <<>>]
MetaList(p, n) == [kind |-> "List", path |-> p, lit |-> "", nested |-> n]

\* Tokens that are no NestedMeta, such as `feature = x` or `all(a,`.
InvalidMeta == [kind |-> "Invalid", path |-> "", lit |-> "", nested |-> <<>>]

\* The flags the conditions are written over.
Atoms == {MetaPath("debug_assertions"), MetaNameValue("feature", "x")}

Literals == Atoms \cup {MetaList("not", <<a>>) : a \in Atoms}

Combos == {MetaList(op, <<a, l>>) : op \in {"any", "all"}, a \in Atoms, l \in Literals}

\* Condition terms: flags, negated flags, any/all over them, and their negations.
Terms == Literals \cup Combos \cup {MetaList("not", <<c>>) : c \in Combos}

Attribute(p, t) == [path |-> p, tokens |-> t]

Stmt(p, b, a) == [path |-> p, bang |-> b, arg |-> a]

OrigStmts == {Stmt("using_that_feature", FALSE, ""), Stmt("other", FALSE, "1")}

OrigAttrs == {Attribute("inline", <<>>), Attribute("must_use", <<>>)}

Signature(id, g, in, out) == [ident |-> id, generics |-> g, inputs |-> in, output |-> out]

NoSignature == Signature("", "", "", "")

Signatures == {Signature("foo", "", "", ""), Signature("bar", "<T>", "x: T", "T")}

Visibilities == {"", "pub"}

Item(k, at, v, s, st) == [kind |-> k, attrs |-> at, vis |-> v, sig |-> s, stmts |-> st]

FnItems ==
    {Item("fn", at, v, s, st) : at \in SeqsUpTo(OrigAttrs, MaxAttrs), v \in Visibilities,
                                s \in Signatures, st \in SeqsUpTo(OrigStmts, MaxStmts)}

StructItem == Item("struct", <<>>, "pub", NoSignature, <<>>)

----------------------------------------------------------------------------
\* The macro, step by step.

\* parse_macro_input!(input as ItemFn): only a function item parses.
parse_ItemFn(tokens) ==
    [ok |-> tokens.kind = "fn",
     value |-> [attrs |-> tokens.attrs, vis |-> tokens.vis, sig |-> tokens.sig,
                block |-> [stmts |-> tokens.stmts]]]

\* parse_macro_input!(raw_args_clone as AttributeArgs): a comma-separated list of
\* NestedMeta; one element that is no NestedMeta fails the whole list.
parse_AttributeArgs(tokens) ==
    [ok |-> \A i \in 1..Len(tokens) : tokens[i].kind # "Invalid",
     value |-> tokens]

\* What parse_macro_input! returns from the macro on a parse error: the error as a
\* compile_error! invocation, and nothing else.
to_compile_error(msg) ==
    <<Item("macro", <<>>, "", NoSignature, <<Stmt("compile_error", TRUE, msg)>>)>>

\* Mutant of throw_err_str: the feature is not consulted.
throw_err_str_always_hard(feature_custom_abort) ==
    "compile_error!(\"Condition was met.\");"

throw_err_str(feature_custom_abort) ==
    IF feature_custom_abort
    THEN "custom_abort_error!(\"Condition was met.\");"
    ELSE "compile_error!(\"Condition was met.\");"

\* syn::parse_str::<Stmt> on the two strings the macro builds.
parse_str(s) ==
    CASE s = "custom_abort_error!(\"Condition was met.\");" ->
            Stmt("custom_abort_error", TRUE, "Condition was met.")
      [] s = "compile_error!(\"Condition was met.\");" ->
            Stmt("compile_error", TRUE, "Condition was met.")

\* Mutant of new_alternative: the visibility is left at its default (inherited).
new_alternative_private(input_fn, feature_custom_abort) ==
    [attrs |-> <<>>,
     vis |-> "",
     sig |-> input_fn.sig,
     block |-> [stmts |-> <<parse_str(throw_err_str(feature_custom_abort))>>]]

\* let mut alternative = ItemFn { attrs: Vec::new(), vis, sig, block: { stmts: vec![..] } }
new_alternative(input_fn, feature_custom_abort) ==
    [attrs |-> <<>>,
     vis |-> input_fn.vis,
     sig |-> input_fn.sig,
     block |-> [stmts |-> <<parse_str(throw_err_str(feature_custom_abort))>>]]

\* Mutant of vec_append: the moved elements land in front.
vec_append_front(self, other) == [self |-> other \o self, other |-> <<>>]

\* Vec::append(&mut self, other: &mut Vec): moves every element of other to the end
\* of self and leaves other empty.
vec_append(self, other) == [self |-> self \o other, other |-> <<>>]

\* if cfg!(feature = "keep_going") { alternative.block.stmts.append(&mut input.block.stmts) }
append_if_keep_going(input_fn, alternative, feature_keep_going) ==
    IF feature_keep_going
    THEN LET r == vec_append(alternative.block.stmts, input_fn.block.stmts)
         IN  [input |-> [input_fn EXCEPT !.block.stmts = r.other],
              alternative |-> [alternative EXCEPT !.block.stmts = r.self]]
    ELSE [input |-> input_fn, alternative |-> alternative]

\* Mutant of cfg_not_attr: the negation is forgotten.
cfg_not_attr_plain(arg) == Attribute("cfg", <<arg>>)

\* parse_quote! {#[cfg(not(#arg))]}
cfg_not_attr(arg) == Attribute("cfg", <<MetaList("not", <<arg>>)>>)

\* parse_quote! {#[cfg(#arg)]}
cfg_attr(arg) == Attribute("cfg", <<arg>>)

\* for arg in args { input.attrs.push(..); alternative.attrs.push(..); }
RECURSIVE push_cfg_attrs(_, _, _)
push_cfg_attrs(input_fn, alternative, args) ==
    IF args = <<>>
    THEN [input |-> input_fn, alternative |-> alternative]
    ELSE push_cfg_attrs(
            [input_fn EXCEPT !.attrs = Append(@, cfg_not_attr(Head(args)))],
            [alternative EXCEPT !.attrs = Append(@, cfg_attr(Head(args)))],
            Tail(args))

\* ToTokens of ItemFn: outer attributes, visibility, signature, block.
ToTokens(item_fn) ==
    Item("fn", item_fn.attrs, item_fn.vis, item_fn.sig, item_fn.block.stmts)

\* Mutant of quote_items: the two items are emitted in the other order.
quote_items_swapped(input_fn, alternative) == <<ToTokens(alternative), ToTokens(input_fn)>>

\* quote! { #input #alternative }
quote_items(input_fn, alternative) == <<ToTokens(input_fn), ToTokens(alternative)>>

\* pub fn abort_if(raw_args: TokenStream, input: TokenStream) -> TokenStream
abort_if(raw_args_tokens, input_tokens, feature_custom_abort, feature_keep_going) ==
    LET parsed_input == parse_ItemFn(input_tokens)
        parsed_args == parse_AttributeArgs(raw_args_tokens)
    IN  IF ~parsed_input.ok THEN to_compile_error("expected fn")
        ELSE IF ~parsed_args.ok THEN to_compile_error("expected attribute arguments")
        ELSE LET alt0 == new_alternative(parsed_input.value, feature_custom_abort)
                 kept == append_if_keep_going(parsed_input.value, alt0, feature_keep_going)
                 done == push_cfg_attrs(kept.input, kept.alternative, parsed_args.value)
             IN  quote_items(done.input, done.alternative)

----------------------------------------------------------------------------
\* Resolution by rustc of the emitted #[cfg(..)] attributes under a flag assignment.

Assignments == [Atoms -> BOOLEAN]

RECURSIVE cfg_holds(_, _)
cfg_holds(meta, asg) ==
    IF meta.kind = "List"
    THEN CASE meta.path = "not" -> ~cfg_holds(meta.nested[1], asg)
           [] meta.path = "any" -> \E i \in 1..Len(meta.nested) : cfg_holds(meta.nested[i], asg)
           [] meta.path = "all" -> \A i \in 1..Len(meta.nested) : cfg_holds(meta.nested[i], asg)
    ELSE asg[meta]

\* An item is compiled when every #[cfg(..)] attribute on it holds.
cfg_keeps(item, asg) ==
    \A i \in 1..Len(item.attrs) :
        item.attrs[i].path = "cfg" => cfg_holds(item.attrs[i].tokens[1], asg)

----------------------------------------------------------------------------
\* The state machine: one macro invocation.

\* Argument lists tried with every function.
SampleArgs ==
    {<<>>, <<InvalidMeta>>, <<MetaPath("debug_assertions")>>,
     <<MetaNameValue("feature", "x"), MetaList("not", <<MetaPath("debug_assertions")>>)>>}

\* Items tried with every argument list.
SampleItems ==
    {StructItem,
     Item("fn", <<Attribute("inline", <<>>)>>, "pub", Signature("bar", "<T>", "x: T", "T"),
          <<Stmt("using_that_feature", FALSE, "")>>)}

Init ==
    /\ \/ /\ input \in FnItems \cup {StructItem}
          /\ raw_args \in SampleArgs
       \/ /\ input \in SampleItems
          /\ raw_args \in SeqsUpTo(Terms \cup {InvalidMeta}, MaxArgs)
    /\ custom_abort \in BOOLEAN
    /\ keep_going \in BOOLEAN
    /\ output = <<>>
    /\ pc = "call"

AbortIf ==
    /\ pc = "call"
    /\ output' = abort_if(raw_args, input, custom_abort, keep_going)
    /\ pc' = "expanded"
    /\ UNCHANGED <<raw_args, input, custom_abort, keep_going>>

Next == AbortIf

Spec == Init /\ [][Next]_vars

----------------------------------------------------------------------------
\* Vocabulary of the properties.

Expanded == pc = "expanded"

\* The inputs the macro accepts: a function item and a well-formed argument list.
Accepted ==
    /\ input.kind = "fn"
    /\ \A i \in 1..Len(raw_args) : raw_args[i].kind # "Invalid"

IsGuard(attr) == attr.path = "cfg"

IsOther(attr) == attr.path # "cfg"

Guards(item) == SelectSeq(item.attrs, IsGuard)

HardAbort == Stmt("compile_error", TRUE, "Condition was met.")

SoftAbort == Stmt("custom_abort_error", TRUE, "Condition was met.")

AllOf(terms) == MetaList("all", terms)

----------------------------------------------------------------------------
\* C1: for every accepted condition list (of at least one term, as the attribute's
\* grammar has it) and every flag assignment, exactly one of the emitted variants
\* has all of its guard attributes satisfied.
C1_ExactlyOneVariant ==
    (Expanded /\ Accepted /\ Len(raw_args) >= 1) =>
        \A asg \in Assignments :
            Cardinality({i \in 1..Len(output) : cfg_keeps(output[i], asg)}) = 1

\* C2: the negative variant's body is the original statement sequence, whatever the
\* features.
C2_NegativeBodyIsOriginal ==
    (Expanded /\ Accepted) => output[1].stmts = input.stmts

\* C3: the positive variant's body is one abort statement, followed by the original
\* statements in order when keep_going is on and by nothing when it is off.
C3_PositiveBody ==
    (Expanded /\ Accepted) =>
        /\ output[2].stmts # <<>>
        /\ Head(output[2].stmts) \in {HardAbort, SoftAbort}
        /\ Tail(output[2].stmts) = IF keep_going THEN input.stmts ELSE <<>>

C3_Witness ==
    /\ Expanded /\ Accepted /\ keep_going
    /\ Len(input.stmts) = 2 /\ input.stmts[1] # input.stmts[2]
    /\ Len(output[2].stmts) = 3

\* C4: a list of two terms (a, b) selects the same variant as the single term
\* all(a, b) under every flag assignment; its negative variant is active exactly
\* when not(all(a, b)) holds.
C4_ListIsAll ==
    (Expanded /\ Accepted /\ Len(raw_args) = 2) =>
        LET single == abort_if(<<AllOf(raw_args)>>, input, custom_abort, keep_going)
        IN  \A asg \in Assignments :
                /\ cfg_keeps(output[1], asg) <=> cfg_keeps(single[1], asg)
                /\ cfg_keeps(output[2], asg) <=> cfg_keeps(single[2], asg)
                /\ cfg_keeps(output[1], asg) <=> ~cfg_holds(AllOf(raw_args), asg)

\* C5: for the list t1..tk the negative variant carries exactly the guards
\* cfg(not(t1))..cfg(not(tk)) and the positive variant exactly cfg(t1)..cfg(tk), in
\* the list's order, each term unchanged inside its guard.
C5_PerTermGuards ==
    (Expanded /\ Accepted) =>
        /\ Guards(output[1]) =
             [i \in 1..Len(raw_args) |->
                Attribute("cfg", <<MetaList("not", <<raw_args[i]>>)>>)]
        /\ Guards(output[2]) =
             [i \in 1..Len(raw_args) |-> Attribute("cfg", <<raw_args[i]>>)]

C5_Witness ==
    /\ Expanded /\ Accepted
    /\ Len(raw_args) = 2
    /\ raw_args[1] = MetaList("any", <<MetaPath("debug_assertions"),
                                       MetaList("not", <<MetaNameValue("feature", "x")>>)>>)
    /\ raw_args[2] = MetaNameValue("feature", "x")
    /\ Len(Guards(output[1])) = 2

\* C6: both emitted variants have the visibility and the signature (name, generics,
\* parameters, return type) of the original function.
C6_SignaturePreserved ==
    (Expanded /\ Accepted) =>
        \A i \in 1..Len(output) :
            /\ output[i].vis = input.vis
            /\ output[i].sig = input.sig

C6_Witness ==
    /\ Expanded /\ Accepted
    /\ input.vis = "pub" /\ input.sig.generics = "<T>"
    /\ Len(output) = 2

\* C7: without custom_abort (hard abort), the emitted output is the same with
\* keep_going on and off.
C7_KeepGoingInertWhenHard ==
    (Expanded /\ Accepted /\ ~custom_abort) =>
        output = abort_if(raw_args, input, custom_abort, ~keep_going)

\* C8: an expansion either fails, emitting one diagnostic and no function (always so
\* when the item is no function or the arguments do not parse), or emits exactly two
\* functions, the negative variant first and the positive variant second.
C8_AllOrNothing ==
    Expanded =>
        IF Accepted
        THEN /\ Len(output) = 2
             /\ output[1].kind = "fn" /\ output[2].kind = "fn"
             /\ \A i \in 1..Len(raw_args) :
                    /\ Guards(output[1])[i].tokens[1].path = "not"
                    /\ Guards(output[2])[i].tokens[1] = raw_args[i]
             /\ (output[1].stmts = <<>> \/ Head(output[1].stmts) \notin {HardAbort, SoftAbort})
             /\ output[2].stmts # <<>> /\ Head(output[2].stmts) \in {HardAbort, SoftAbort}
        ELSE /\ Len(output) = 1
             /\ output[1].kind = "macro"
             /\ output[1].stmts[1].path = "compile_error"

C8_Witness ==
    /\ Expanded
    /\ input.kind = "fn"
    /\ \E i \in 1..Len(raw_args) : raw_args[i].kind = "Invalid"
    /\ Len(output) = 1

\* C9: the abort statement is compile_error!("Condition was met.") without
\* custom_abort and custom_abort_error!("Condition was met.") with it, and depends
\* on nothing else.
C9_AbortStatement ==
    (Expanded /\ Accepted) =>
        Head(output[2].stmts) = IF custom_abort THEN SoftAbort ELSE HardAbort

C9_Witness ==
    /\ Expanded /\ Accepted /\ custom_abort
    /\ Head(output[2].stmts).path = "custom_abort_error"

\* C10: with the guards removed, both variants carry the attributes of the original
\* function.
C10_OtherAttributesOnBoth ==
    (Expanded /\ Accepted) =>
        /\ SelectSeq(output[1].attrs, IsOther) = input.attrs
        /\ SelectSeq(output[2].attrs, IsOther) = input.attrs

====
